---------------------------- MODULE Spec2Model ----------------------------
(***************************************************************************)
(* A model of aiofmp's MCP layer: the server entry point (mcp_server.py),  *)
(* the tool utilities (mcp_tools.py) and the search category (search.py).  *)
(*                                                                         *)
(* Python values are tagged records [t |-> type name, v |-> payload];      *)
(* a Python str is a sequence of one-character strings, so that len,       *)
(* count, split, lower and int() are computed and not assumed.             *)
(***************************************************************************)
EXTENDS Integers, Sequences, FiniteSets, TLC

VARIABLES
    \* ---- mcp_server.run_server ----
    env,                    \* os.environ: variable name -> PyNone (unset) or PyStr
    toolModulesImportable,  \* whether the category tool modules can be imported
    pc,                     \* position of run_server
    transport, host, port, api_key,   \* run_server's locals
    registered,             \* "no" | "ok" | "failed": outcome of register_tools()
    handlerInstalled,       \* setup_error_handling() has run
    runCalls,               \* the calls made to mcp.run, in order
    runOutcome,             \* how the awaited mcp.run ended ("none" until it does)
    exitCalls,              \* the statuses passed to sys.exit, in order
    \* ---- mcp_server.get_fmp_client ----
    fmp_client,             \* the module global _fmp_client
    clientsCreated,         \* how many FmpClient objects were constructed
    clientCalls,            \* how many calls of get_fmp_client were made
    lastGet,                \* the last call of get_fmp_client: its outcome
    returnedClients,        \* every client a call of get_fmp_client returned
    \* ---- mcp_tools: create_tool_response, handle_async_operation ----
    tool,                   \* per invocation: what was called, where it is, its outcome
    \* ---- search.SearchCategory ----
    searchCall,             \* the call of a search method: its name and arguments
    searchPc,               \* "idle", "called" (the call is to be made), "awaiting"
                            \* (its request is made) or "done"
    requestCount,           \* how many calls of the base client's _make_request were made
    lastRequest,            \* the last of them: its endpoint and params
    searchResult,           \* the outcome of the call ("none" until it ends)
    \* ---- mcp_tools.validate_date ----
    date_str,               \* the argument of the call of validate_date
    dateResult,             \* its outcome ("none" until the call is made)
    \* ---- mcp_tools.validate_symbol, validate_limit, create_summary_stats;
    \*      mcp_server.setup_error_handling.handle_error ----
    helperCall,             \* the call of one of them: its name and arguments
    helperResult            \* its outcome ("none" until the call is made)

serverVars == <<toolModulesImportable, pc, transport, host, port, api_key,
                registered, handlerInstalled, runCalls, runOutcome, exitCalls>>
clientVars == <<fmp_client, clientsCreated, clientCalls, lastGet, returnedClients>>

toolVars == <<tool>>
searchVars == <<searchCall, searchPc, requestCount, lastRequest, searchResult>>

dateVars == <<date_str, dateResult>>

helperVars == <<helperCall, helperResult>>

vars == <<env, serverVars, clientVars, toolVars, searchVars, dateVars, helperVars>>

\* what each part of the program leaves alone
notServer == <<clientVars, toolVars, searchVars, dateVars, helperVars>>
notClient == <<serverVars, toolVars, searchVars, dateVars, helperVars>>
notTools == <<env, serverVars, clientVars, searchVars, dateVars, helperVars>>
notSearch == <<env, serverVars, clientVars, toolVars, dateVars, helperVars>>
notDate == <<env, serverVars, clientVars, toolVars, searchVars, helperVars>>
notHelpers == <<env, serverVars, clientVars, toolVars, searchVars, dateVars>>

-----------------------------------------------------------------------------
(* Python values *)

PyNone == [t |-> "NoneType", v |-> 0]
PyStr(s) == [t |-> "str", v |-> s]
PyInt(i) == [t |-> "int", v |-> i]
PyBool(b) == [t |-> "bool", v |-> b]
PyFloat(i) == [t |-> "float", v |-> i]

\* bool(x) for the value kinds used here
Truthy(x) ==
    CASE x.t = "NoneType" -> FALSE
      [] x.t = "str" -> x.v # <<>>
      [] x.t = "bool" -> x.v
      [] OTHER -> x.v # 0

-----------------------------------------------------------------------------
(* Python str operations, on sequences of characters *)

UpperChars == <<"A","B","C","D","E","F","G","H","I","J","K","L","M",
                "N","O","P","Q","R","S","T","U","V","W","X","Y","Z">>
LowerChars == <<"a","b","c","d","e","f","g","h","i","j","k","l","m",
                "n","o","p","q","r","s","t","u","v","w","x","y","z">>
DigitChars == <<"0","1","2","3","4","5","6","7","8","9">>

Digits == {DigitChars[i] : i \in 1..Len(DigitChars)}
Whitespace == {" ", "\t", "\n"}

IndexIn(c, table) == CHOOSE i \in 1..Len(table) : table[i] = c

\* str.lower(), one character
LowerChar(c) ==
    IF \E i \in 1..Len(UpperChars) : UpperChars[i] = c
    THEN LowerChars[IndexIn(c, UpperChars)]
    ELSE c

\* str.lower()
StrLower(s) == [i \in 1..Len(s) |-> LowerChar(s[i])]

RECURSIVE LStrip(_)
LStrip(s) == IF s # <<>> /\ s[1] \in Whitespace THEN LStrip(Tail(s)) ELSE s

RECURSIVE RStrip(_)
RStrip(s) ==
    IF s # <<>> /\ s[Len(s)] \in Whitespace
    THEN RStrip(SubSeq(s, 1, Len(s) - 1))
    ELSE s

\* str.strip()
StrStrip(s) == LStrip(RStrip(s))

\* the digits part of an int() literal: digits, single underscores between them
IsDigitGroup(d) ==
    /\ d # <<>>
    /\ d[1] \in Digits
    /\ d[Len(d)] \in Digits
    /\ \A i \in 1..Len(d) : d[i] \in Digits \cup {"_"}
    /\ \A i \in 1..(Len(d) - 1) : ~(d[i] = "_" /\ d[i + 1] = "_")

Unsigned(b) == IF b # <<>> /\ b[1] \in {"+", "-"} THEN Tail(b) ELSE b

\* whether int(s) returns (TRUE) or raises ValueError (FALSE)
IntParses(s) == IsDigitGroup(Unsigned(StrStrip(s)))

RECURSIVE DigitsValue(_, _)
DigitsValue(d, acc) ==
    IF d = <<>> THEN acc
    ELSE IF d[1] = "_" THEN DigitsValue(Tail(d), acc)
    ELSE DigitsValue(Tail(d), 10 * acc + (IndexIn(d[1], DigitChars) - 1))

\* the value of int(s), for an s that parses
IntValue(s) ==
    LET b == StrStrip(s)
        n == DigitsValue(Unsigned(b), 0)
    IN IF b[1] = "-" THEN 0 - n ELSE n

-----------------------------------------------------------------------------
(* mcp_server.run_server *)

STDIO == <<"s","t","d","i","o">>
HTTP == <<"h","t","t","p">>
LOCALHOST == <<"l","o","c","a","l","h","o","s","t">>
DEFAULT_PORT == <<"3","0","0","0">>

\* os.getenv(name): None when unset
GetEnv(name) == env[name]

\* os.getenv(name, default)
GetEnvDefault(name, default) == IF env[name] = PyNone THEN PyStr(default) ELSE env[name]

EnvNames == {"FMP_API_KEY", "MCP_TRANSPORT", "MCP_HOST", "MCP_PORT"}

\* the environments the model starts run_server in
ApiKeyValues == {PyNone, PyStr(<<>>), PyStr(<<"t","e","s","t","_","k","e","y">>)}
TransportValues == {PyNone, PyStr(STDIO), PyStr(HTTP), PyStr(<<"H","T","T","P">>),
                    PyStr(<<"s","s","e">>)}
HostValues == {PyNone, PyStr(<<"0",".","0",".","0",".","0">>), PyStr(<<>>)}
PortValues == {PyNone, PyStr(<<"8","0","8","0">>), PyStr(<<" ","8","0">>),
               PyStr(<<"a","b","c">>), PyStr(<<>>)}

Environments ==
    {[n \in EnvNames |->
        CASE n = "FMP_API_KEY" -> k
          [] n = "MCP_TRANSPORT" -> t
          [] n = "MCP_HOST" -> h
          [] n = "MCP_PORT" -> p] :
     k \in ApiKeyValues, t \in TransportValues, h \in HostValues, p \in PortValues}

ServerIdle ==
    /\ toolModulesImportable = TRUE
    /\ pc = "config"
    /\ transport = PyNone
    /\ host = PyNone
    /\ port = PyNone
    /\ api_key = PyNone
    /\ registered = "no"
    /\ handlerInstalled = FALSE
    /\ runCalls = <<>>
    /\ runOutcome = "none"
    /\ exitCalls = <<>>

ServerInit ==
    /\ env \in Environments
    /\ toolModulesImportable \in BOOLEAN
    /\ pc = "config"
    /\ transport = PyNone
    /\ host = PyNone
    /\ port = PyNone
    /\ api_key = PyNone
    /\ registered = "no"
    /\ handlerInstalled = FALSE
    /\ runCalls = <<>>
    /\ runOutcome = "none"
    /\ exitCalls = <<>>

\* sys.exit(status): SystemExit is no Exception, so no except clause of
\* run_server catches it and the process ends with that status
SysExit(status) ==
    /\ exitCalls' = Append(exitCalls, status)
    /\ pc' = "exited"

ExceptNoInterruptClause(kind) ==
    CASE kind = "Exception" -> SysExit(1)
      [] OTHER -> /\ pc' = "propagated"
                  /\ UNCHANGED exitCalls

\* the except clauses of run_server's try, for an exception of the given kind
\* raised inside it: "KeyboardInterrupt", "Exception" (any subclass of
\* Exception) or "BaseException" (any other, which no clause catches)
Except(kind) ==
    CASE kind = "KeyboardInterrupt" -> /\ pc' = "returned"
                                       /\ UNCHANGED exitCalls
      [] kind = "Exception" -> SysExit(1)
      [] OTHER -> /\ pc' = "propagated"
                  /\ UNCHANGED exitCalls

\* lines 119-121: read the transport, the host and the port
ReadConfig ==
    /\ pc = "config"
    /\ LET p == GetEnvDefault("MCP_PORT", DEFAULT_PORT)
       IN IF IntParses(p.v)
          THEN /\ transport' = PyStr(StrLower(GetEnvDefault("MCP_TRANSPORT", STDIO).v))
               /\ host' = GetEnvDefault("MCP_HOST", LOCALHOST)
               /\ port' = PyInt(IntValue(p.v))
               /\ pc' = "validate"
               /\ UNCHANGED exitCalls
          ELSE \* int() raises ValueError
               /\ transport' = PyStr(StrLower(GetEnvDefault("MCP_TRANSPORT", STDIO).v))
               /\ host' = GetEnvDefault("MCP_HOST", LOCALHOST)
               /\ UNCHANGED port
               /\ Except("Exception")
    /\ UNCHANGED <<env, notServer, toolModulesImportable, api_key, registered, handlerInstalled,
                   runCalls, runOutcome>>

ValidateKeyNoneOnly ==
    /\ pc = "validate"
    /\ api_key' = GetEnv("FMP_API_KEY")
    /\ IF GetEnv("FMP_API_KEY") = PyNone
       THEN SysExit(1)
       ELSE /\ pc' = "register"
            /\ UNCHANGED exitCalls
    /\ UNCHANGED <<env, notServer, toolModulesImportable, transport, host, port, registered,
                   handlerInstalled, runCalls, runOutcome>>

\* lines 124-127: the API key is required
ValidateKey ==
    /\ pc = "validate"
    /\ api_key' = GetEnv("FMP_API_KEY")
    /\ IF ~Truthy(GetEnv("FMP_API_KEY"))
       THEN SysExit(1)
       ELSE /\ pc' = "register"
            /\ UNCHANGED exitCalls
    /\ UNCHANGED <<env, notServer, toolModulesImportable, transport, host, port, registered,
                   handlerInstalled, runCalls, runOutcome>>

RegisterToolsSwallow ==
    /\ pc = "register"
    /\ registered' = IF toolModulesImportable THEN "ok" ELSE "failed"
    /\ pc' = "setup"
    /\ UNCHANGED <<env, notServer, toolModulesImportable, transport, host, port, api_key,
                   handlerInstalled, runCalls, runOutcome, exitCalls>>

\* line 130 and register_tools (lines 41-74): import every category tool
\* module; an ImportError is logged and raised again
RegisterTools ==
    /\ pc = "register"
    /\ IF toolModulesImportable
       THEN /\ registered' = "ok"
            /\ pc' = "setup"
            /\ UNCHANGED exitCalls
       ELSE /\ registered' = "failed"
            /\ Except("Exception")
    /\ UNCHANGED <<env, notServer, toolModulesImportable, transport, host, port, api_key,
                   handlerInstalled, runCalls, runOutcome>>

\* line 131 and setup_error_handling (lines 77-112)
SetupErrorHandling ==
    /\ pc = "setup"
    /\ handlerInstalled' = TRUE
    /\ pc' = "run"
    /\ UNCHANGED <<env, notServer, toolModulesImportable, transport, host, port, api_key,
                   registered, runCalls, runOutcome, exitCalls>>

\* the keyword arguments of the mcp.run call, lines 137-142
RunArguments ==
    IF transport = PyStr(HTTP)
    THEN [transport |-> PyStr(HTTP), host |-> host, port |-> port]
    ELSE [transport |-> PyStr(STDIO), host |-> PyNone, port |-> PyNone]

\* lines 137-142: call mcp.run and await it
StartServing ==
    /\ pc = "run"
    /\ runCalls' = Append(runCalls, RunArguments)
    /\ pc' = "serving"
    /\ UNCHANGED <<env, notServer, toolModulesImportable, transport, host, port, api_key,
                   registered, handlerInstalled, runOutcome, exitCalls>>

RunOutcomes == {"return", "KeyboardInterrupt", "Exception", "BaseException"}

\* the awaited mcp.run ends: it returns, or raises into lines 144-148
ServingEnds ==
    /\ pc = "serving"
    /\ \E outcome \in RunOutcomes :
        /\ runOutcome' = outcome
        /\ IF outcome = "return"
           THEN /\ pc' = "returned"
                /\ UNCHANGED exitCalls
           ELSE Except(outcome)
    /\ UNCHANGED <<env, notServer, toolModulesImportable, transport, host, port, api_key,
                   registered, handlerInstalled, runCalls>>

ServerNext ==
    \/ ReadConfig
    \/ ValidateKey
    \/ RegisterTools
    \/ SetupErrorHandling
    \/ StartServing
    \/ ServingEnds

-----------------------------------------------------------------------------
(* mcp_server.get_fmp_client *)

\* FmpClient(api_key=...): the n-th object constructed; a client keeps the key
\* it was built with
NewFmpClient(n, key) == [t |-> "FmpClient", v |-> [id |-> n, api_key |-> key]]

FMPAuthenticationError(msg) == [kind |-> "FMPAuthenticationError", msg |-> msg]

KEY_REQUIRED ==
    <<"F","M","P","_","A","P","I","_","K","E","Y"," ",
      "e","n","v","i","r","o","n","m","e","n","t"," ",
      "v","a","r","i","a","b","l","e"," ","i","s"," ",
      "r","e","q","u","i","r","e","d">>

Returned(x) == [out |-> "returned", val |-> x]
Raised(e) == [out |-> "raised", val |-> e]

\* how many calls of get_fmp_client a behaviour of the model makes
MaxClientCalls == 4

OtherKeyValues == {PyStr(<<"k","2">>), PyStr(<<"k","3">>)}

ClientIdle ==
    /\ fmp_client = PyNone
    /\ clientsCreated = 0
    /\ clientCalls = 0
    /\ lastGet = [out |-> "none", keyMissing |-> FALSE]
    /\ returnedClients = {}

GetFmpClientAlwaysNew(key) ==
    IF ~Truthy(key)
    THEN [global |-> fmp_client, created |-> clientsCreated,
          result |-> Raised(FMPAuthenticationError(KEY_REQUIRED))]
    ELSE [global |-> NewFmpClient(clientsCreated + 1, key.v),
          created |-> clientsCreated + 1,
          result |-> Returned(NewFmpClient(clientsCreated + 1, key.v))]

\* get_fmp_client (lines 30-38) with os.getenv("FMP_API_KEY") = key: the new
\* value of the global, the number of clients constructed, and the outcome
GetFmpClientResult(key) ==
    IF fmp_client = PyNone
    THEN IF ~Truthy(key)
         THEN [global |-> fmp_client, created |-> clientsCreated,
               result |-> Raised(FMPAuthenticationError(KEY_REQUIRED))]
         ELSE [global |-> NewFmpClient(clientsCreated + 1, key.v),
               created |-> clientsCreated + 1,
               result |-> Returned(NewFmpClient(clientsCreated + 1, key.v))]
    ELSE [global |-> fmp_client, created |-> clientsCreated,
          result |-> Returned(fmp_client)]

\* one call of get_fmp_client
GetFmpClient ==
    /\ clientCalls < MaxClientCalls
    /\ LET r == GetFmpClientResult(GetEnv("FMP_API_KEY"))
       IN /\ fmp_client' = r.global
          /\ clientsCreated' = r.created
          /\ lastGet' = [out |-> r.result.out, val |-> r.result.val,
                         keyMissing |-> ~Truthy(GetEnv("FMP_API_KEY"))]
          /\ returnedClients' = IF r.result.out = "returned"
                                THEN returnedClients \cup {r.result.val}
                                ELSE returnedClients
    /\ clientCalls' = clientCalls + 1
    /\ UNCHANGED <<env, notClient>>

\* the environment changes between calls (os.environ, patch.dict in the tests)
SetApiKey ==
    /\ \E k \in ApiKeyValues \cup OtherKeyValues :
        /\ k # env["FMP_API_KEY"]
        /\ env' = [env EXCEPT !["FMP_API_KEY"] = k]
    /\ UNCHANGED <<clientVars, notClient>>

ClientNext ==
    \/ GetFmpClient
    \/ SetApiKey

-----------------------------------------------------------------------------
(* mcp_tools.create_tool_response and mcp_tools.handle_async_operation *)

\* d[k] = v on a Python dict
SetItem(d, k, v) == [x \in DOMAIN d \cup {k} |-> IF x = k THEN v ELSE d[x]]

CreateToolResponseNoMessage(data, success, message) ==
    [k \in {"success", "data"} |-> IF k = "success" THEN success ELSE data]

\* create_tool_response (lines 19-39): the envelope, a dict
CreateToolResponse(data, success, message) ==
    LET response == [k \in {"success", "data"} |-> IF k = "success" THEN success ELSE data]
    IN IF Truthy(message) THEN SetItem(response, "message", message) ELSE response

\* the exception classes a wrapped operation raises: those `except Exception`
\* catches, and one it does not (asyncio.CancelledError is a BaseException)
ExceptionKinds == {"ValueError", "FMPAuthenticationError", "FMPRateLimitError",
                   "FMPResponseError", "FMPError", "RuntimeError"}
BaseExceptionKinds == {"CancelledError"}
FMPErrorKinds == {"FMPAuthenticationError", "FMPRateLimitError", "FMPResponseError",
                  "FMPError"}

IsException(e) == e.kind \in ExceptionKinds

Error(kind, msg) == [kind |-> kind, msg |-> msg]

\* str(e) of an exception built from one message
StrOfError(e) == e.msg

\* f"Error in {operation_name}: {str(e)}" (line 61)
ErrorIn(operation_name, e) ==
    <<"E","r","r","o","r"," ","i","n"," ">> \o operation_name \o <<":"," ">> \o StrOfError(e)

WrapperCatchesFMPErrorOnly(operation_name, op) ==
    IF op.out = "returned"
    THEN Returned(CreateToolResponse(op.val, PyBool(TRUE), PyStr(<<>>)))
    ELSE IF op.val.kind \in FMPErrorKinds
         THEN Returned(CreateToolResponse(PyNone, PyBool(FALSE),
                                          PyStr(ErrorIn(operation_name, op.val))))
         ELSE Raised(op.val)

\* what handle_async_operation's wrapper (lines 50-62) does with the outcome
\* op of the awaited operation: it returns an envelope, or lets a
\* BaseException that is no Exception through
WrapperResult(operation_name, op) ==
    IF op.out = "returned"
    THEN Returned(CreateToolResponse(op.val, PyBool(TRUE), PyStr(<<>>)))
    ELSE IF IsException(op.val)
         THEN Returned(CreateToolResponse(PyNone, PyBool(FALSE),
                                          PyStr(ErrorIn(operation_name, op.val))))
         ELSE Raised(op.val)

\* how many invocations (wrapped tools, direct calls) a behaviour holds
MaxInvocations == 2

ToolIds == 1..MaxInvocations

OperationNames == {<<>>, <<"s","e","a","r","c","h">>}
ToolData == {PyNone, PyInt(0), PyStr(<<"A","A","P","L">>)}
Messages == {<<>>, <<"b","o","o","m">>}

\* how an awaited operation can end
OperationOutcomes ==
    {Returned(r) : r \in ToolData}
    \cup {Raised(Error(k, m)) : k \in ExceptionKinds \cup BaseExceptionKinds, m \in Messages}

NoOutcome == [out |-> "none"]
NoCall == [fn |-> "none"]

ToolsIdle ==
    tool = [i \in ToolIds |-> [pc |-> "idle", call |-> NoCall, opRuns |-> 0,
                               op |-> NoOutcome, result |-> NoOutcome]]

\* a direct call of create_tool_response
CallCreateToolResponse(i) ==
    /\ tool[i].pc = "idle"
    /\ \E data \in ToolData, success \in BOOLEAN, message \in Messages :
        tool' = [tool EXCEPT ![i] =
                    [pc |-> "done",
                     call |-> [fn |-> "create_tool_response", data |-> data,
                               success |-> PyBool(success), message |-> PyStr(message)],
                     opRuns |-> 0,
                     op |-> NoOutcome,
                     result |-> Returned(CreateToolResponse(data, PyBool(success),
                                                            PyStr(message)))]]
    /\ UNCHANGED notTools

\* a wrapped tool is invoked: the wrapper calls the operation and awaits it
\* (lines 51-53)
InvokeWrappedTool(i) ==
    /\ tool[i].pc = "idle"
    /\ \E name \in OperationNames :
        tool' = [tool EXCEPT ![i] =
                    [pc |-> "awaiting",
                     call |-> [fn |-> "wrapper", operation_name |-> name],
                     opRuns |-> tool[i].opRuns + 1,
                     op |-> NoOutcome,
                     result |-> NoOutcome]]
    /\ UNCHANGED notTools

OperationEndsRetry(i) ==
    /\ tool[i].pc = "awaiting"
    /\ \E op \in OperationOutcomes :
        tool' = [tool EXCEPT ![i] =
                    IF op.out = "raised" /\ op.val.kind = "FMPRateLimitError"
                       /\ tool[i].opRuns < 2
                    THEN [@ EXCEPT !.opRuns = @ + 1]
                    ELSE [@ EXCEPT !.pc = "done",
                                   !.op = op,
                                   !.result = WrapperResult(tool[i].call.operation_name, op)]]
    /\ UNCHANGED notTools

\* the awaited operation ends and the wrapper finishes (lines 53-62)
OperationEnds(i) ==
    /\ tool[i].pc = "awaiting"
    /\ \E op \in OperationOutcomes :
        tool' = [tool EXCEPT ![i] =
                    [@ EXCEPT !.pc = "done",
                              !.op = op,
                              !.result = WrapperResult(tool[i].call.operation_name, op)]]
    /\ UNCHANGED notTools

ToolsNext ==
    \/ \E i \in ToolIds : CallCreateToolResponse(i)
    \/ \E i \in ToolIds : InvokeWrappedTool(i)
    \/ \E i \in ToolIds : OperationEnds(i)

-----------------------------------------------------------------------------
(* search.SearchCategory: symbols, companies, screener *)

SuppliedTruthy(x) == Truthy(x)

\* the test `x is not None` that guards every optional parameter
Supplied(x) == x # PyNone

\* the optional parameters of symbols and companies with the keys they are
\* sent under, in the order of the code (lines 49-52, 80-83)
QueryFields == << <<"limit", "limit">>, <<"exchange", "exchange">> >>

\* the keyword parameters of screener with the keys they are sent under, in
\* the order of the code (lines 151-188)
ScreenerFields ==
    << <<"market_cap_more_than", "marketCapMoreThan">>,
       <<"market_cap_lower_than", "marketCapLowerThan">>,
       <<"sector", "sector">>,
       <<"industry", "industry">>,
       <<"beta_more_than", "betaMoreThan">>,
       <<"beta_lower_than", "betaLowerThan">>,
       <<"price_more_than", "priceMoreThan">>,
       <<"price_lower_than", "priceLowerThan">>,
       <<"dividend_more_than", "dividendMoreThan">>,
       <<"dividend_lower_than", "dividendLowerThan">>,
       <<"volume_more_than", "volumeMoreThan">>,
       <<"volume_lower_than", "volumeLowerThan">>,
       <<"exchange", "exchange">>,
       <<"country", "country">>,
       <<"is_etf", "isEtf">>,
       <<"is_fund", "isFund">>,
       <<"is_actively_trading", "isActivelyTrading">>,
       <<"limit", "limit">>,
       <<"include_all_share_classes", "includeAllShareClasses">> >>

\* the chain of `if x is not None: params[key] = x` statements over fields,
\* starting from the dict params
RECURSIVE AddSupplied(_, _, _)
AddSupplied(fields, args, params) ==
    IF fields = <<>> THEN params
    ELSE LET arg == fields[1][1]
             key == fields[1][2]
         IN AddSupplied(Tail(fields), args,
                        IF Supplied(args[arg]) THEN SetItem(params, key, args[arg])
                        ELSE params)

EmptyDict == [k \in {} |-> PyNone]

\* symbols (lines 48-54) and companies (lines 79-85): the params dict
QueryParams(args) ==
    AddSupplied(QueryFields, args, SetItem(EmptyDict, "query", args["query"]))

\* screener (lines 149-188): the params dict
ScreenerParams(args) == AddSupplied(ScreenerFields, args, EmptyDict)

\* the call self._client._make_request(endpoint, params) each method makes
SearchRequest(method, args) ==
    CASE method = "symbols" -> [endpoint |-> "search-symbol", params |-> QueryParams(args)]
      [] method = "companies" -> [endpoint |-> "search-name", params |-> QueryParams(args)]
      [] method = "screener" ->
            [endpoint |-> "company-screener", params |-> ScreenerParams(args)]

\* at most this many of screener's parameters are supplied by one call
MaxSupplied == 2

FieldNames(fields) == {fields[i][1] : i \in 1..Len(fields)}

\* the values a call supplies for a parameter: two of the parameter's type,
\* one of them the type's falsy value (0, 0.0, "", False)
ArgValues(name) ==
    CASE name \in {"query", "sector", "industry", "exchange", "country"} ->
            {PyStr(<<>>), PyStr(<<"N","Y","S","E">>)}
      [] name \in {"limit", "volume_more_than", "volume_lower_than"} ->
            {PyInt(0), PyInt(100)}
      [] name \in {"is_etf", "is_fund", "is_actively_trading",
                   "include_all_share_classes"} ->
            {PyBool(FALSE), PyBool(TRUE)}
      [] OTHER -> {PyFloat(0), PyFloat(1000)}

RECURSIVE SubsetsUpTo(_, _)
SubsetsUpTo(S, k) ==
    IF k = 0 THEN {{}}
    ELSE LET smaller == SubsetsUpTo(S, k - 1)
         IN smaller \cup {T \cup {x} : T \in smaller, x \in S}

\* every assignment of values to the parameters in given, None to the rest
RECURSIVE Assignments(_, _)
Assignments(names, given) ==
    IF names = {} THEN {EmptyDict}
    ELSE LET n == CHOOSE x \in names : TRUE
             rest == Assignments(names \ {n}, given)
         IN IF n \in given
            THEN {SetItem(a, n, v) : a \in rest, v \in ArgValues(n)}
            ELSE {SetItem(a, n, PyNone) : a \in rest}

\* the argument lists of symbols and companies: query is a required str
QueryArgs ==
    UNION {Assignments({"query", "limit", "exchange"}, {"query"} \cup given) :
           given \in SUBSET {"limit", "exchange"}}

\* the argument lists of screener
ScreenerArgs ==
    UNION {Assignments(FieldNames(ScreenerFields), given) :
           given \in SubsetsUpTo(FieldNames(ScreenerFields), MaxSupplied)}

SearchIdle ==
    /\ searchCall = [method |-> "none"]
    /\ searchPc = "idle"
    /\ requestCount = 0
    /\ lastRequest = [endpoint |-> "none"]
    /\ searchResult = [out |-> "idle"]

\* the calls of search methods the model makes, one per behaviour
SearchCalls ==
    {[method |-> m, args |-> a] : m \in {"symbols", "companies"}, a \in QueryArgs}
    \cup {[method |-> "screener", args |-> a] : a \in ScreenerArgs}

\* symbols (lines 25-54), up to its call of _make_request
Symbols ==
    /\ searchPc = "called"
    /\ searchCall.method = "symbols"
    /\ lastRequest' = SearchRequest("symbols", searchCall.args)
    /\ requestCount' = requestCount + 1
    /\ searchPc' = "awaiting"
    /\ UNCHANGED <<searchCall, searchResult, notSearch>>

\* companies (lines 56-85), up to its call of _make_request
Companies ==
    /\ searchPc = "called"
    /\ searchCall.method = "companies"
    /\ lastRequest' = SearchRequest("companies", searchCall.args)
    /\ requestCount' = requestCount + 1
    /\ searchPc' = "awaiting"
    /\ UNCHANGED <<searchCall, searchResult, notSearch>>

\* screener (lines 87-190), up to its call of _make_request
Screener ==
    /\ searchPc = "called"
    /\ searchCall.method = "screener"
    /\ lastRequest' = SearchRequest("screener", searchCall.args)
    /\ requestCount' = requestCount + 1
    /\ searchPc' = "awaiting"
    /\ UNCHANGED <<searchCall, searchResult, notSearch>>

\* how the awaited _make_request can end: with the decoded response, or with
\* one of the base client's errors
RequestOutcomes ==
    {Returned(PyStr(<<"A","A","P","L">>))}
    \cup {Raised(Error(k, <<"b","o","o","m">>)) :
            k \in {"FMPRateLimitError", "FMPResponseError"}}

\* the awaited request ends and the method ends as it did: `return await`
\* (lines 54, 85, 190) returns what the request returned and lets what it
\* raised through
RequestEnds ==
    /\ searchPc = "awaiting"
    /\ \E out \in RequestOutcomes : searchResult' = out
    /\ searchPc' = "done"
    /\ UNCHANGED <<searchCall, requestCount, lastRequest, notSearch>>

SearchNext ==
    \/ Symbols
    \/ Companies
    \/ Screener
    \/ RequestEnds

-----------------------------------------------------------------------------
(* mcp_tools.validate_date *)

\* str.count(c)
RECURSIVE StrCount(_, _)
StrCount(s, c) ==
    IF s = <<>> THEN 0
    ELSE (IF s[1] = c THEN 1 ELSE 0) + StrCount(Tail(s), c)

\* str.split(c): the pieces between the occurrences of c, empty ones kept
RECURSIVE SplitFrom(_, _, _)
SplitFrom(s, c, piece) ==
    IF s = <<>> THEN <<piece>>
    ELSE IF s[1] = c THEN <<piece>> \o SplitFrom(Tail(s), c, <<>>)
    ELSE SplitFrom(Tail(s), c, Append(piece, s[1]))

StrSplit(s, c) == SplitFrom(s, c, <<>>)

DATE_LEN == 10
DATE_HYPHENS == 2

ValueError(msg) == [kind |-> "ValueError", msg |-> msg]

DATE_MUST_BE_STRING ==
    <<"D","a","t","e"," ","m","u","s","t"," ","b","e"," ","a"," ",
      "s","t","r","i","n","g">>
DATE_FORMAT ==
    <<"D","a","t","e"," ","m","u","s","t"," ","b","e"," ","i","n"," ",
      "Y","Y","Y","Y","-","M","M","-","D","D"," ","f","o","r","m","a","t">>

\* validate_date (lines 92-123)
ValidateDate(d) ==
    IF ~Truthy(d) THEN Returned(PyNone)
    ELSE IF d.t # "str" THEN Raised(ValueError(DATE_MUST_BE_STRING))
    ELSE IF Len(d.v) # DATE_LEN \/ StrCount(d.v, "-") # DATE_HYPHENS
         THEN Raised(ValueError(DATE_FORMAT))
    ELSE LET parts == StrSplit(d.v, "-")
         IN IF \A i \in 1..Len(parts) : IntParses(parts[i])
            THEN Returned(d)
            ELSE Raised(ValueError(DATE_FORMAT))

\* the strings the model validates: the empty one; those of a length next to
\* DATE_LEN that hold the digit "2" everywhere but in at most MaxOddChars
\* places, which hold a hyphen or a letter; and a well-formed date with a
\* blank in one place
MaxOddChars == 3

OddChars == {"-", "a"}

DateLengths == {DATE_LEN - 1, DATE_LEN, DATE_LEN + 1}

StringsOfLength(n) ==
    UNION {{[i \in 1..n |-> IF i \in P THEN f[i] ELSE "2"] : f \in [P -> OddChars]} :
           P \in SubsetsUpTo(1..n, MaxOddChars)}

WellFormedDate == <<"2","0","2","4","-","0","1","-","1","5">>

WithBlank ==
    {[i \in 1..Len(WellFormedDate) |-> IF i = p THEN " " ELSE WellFormedDate[i]] :
     p \in 1..Len(WellFormedDate)}

DateStrings ==
    {<<>>, WellFormedDate} \cup WithBlank \cup UNION {StringsOfLength(n) : n \in DateLengths}

DateInputs ==
    {PyStr(s) : s \in DateStrings} \cup {PyNone, PyInt(0), PyInt(20240115)}

DateIdle ==
    /\ date_str = PyNone
    /\ dateResult = [out |-> "idle"]

\* the call validate_date(date_str)
CallValidateDate ==
    /\ dateResult = NoOutcome
    /\ dateResult' = ValidateDate(date_str)
    /\ UNCHANGED <<date_str, notDate>>

DateNext ==
    \/ CallValidateDate

-----------------------------------------------------------------------------
(* mcp_tools.validate_symbol *)

\* str.upper(), one character
UpperChar(c) ==
    IF \E i \in 1..Len(LowerChars) : LowerChars[i] = c
    THEN UpperChars[IndexIn(c, LowerChars)]
    ELSE c

\* str.upper()
StrUpper(s) == [i \in 1..Len(s) |-> UpperChar(s[i])]

SYMBOL_NON_EMPTY_STRING == <<"S","y","m","b","o","l"," ","m","u",
      "s","t"," ","b","e"," ","a"," ","n","o","n","-","e","m",
      "p","t","y"," ","s","t","r","i","n","g">>
SYMBOL_EMPTY == <<"S","y","m","b","o","l"," ","c","a","n","n",
      "o","t"," ","b","e"," ","e","m","p","t","y">>

ValidateSymbolNoStrip(symbol) ==
    IF ~Truthy(symbol) \/ symbol.t # "str"
    THEN Raised(ValueError(SYMBOL_NON_EMPTY_STRING))
    ELSE LET normalized == StrUpper(symbol.v)
         IN IF normalized = <<>>
            THEN Raised(ValueError(SYMBOL_EMPTY))
            ELSE Returned(PyStr(normalized))

\* validate_symbol (lines 67-89)
ValidateSymbol(symbol) ==
    IF ~Truthy(symbol) \/ symbol.t # "str"
    THEN Raised(ValueError(SYMBOL_NON_EMPTY_STRING))
    ELSE LET normalized == StrUpper(StrStrip(symbol.v))
         IN IF normalized = <<>>
            THEN Raised(ValueError(SYMBOL_EMPTY))
            ELSE Returned(PyStr(normalized))

\* the symbols the model validates: every string of at most MaxSymbolLen
\* characters over a lower-case letter, an upper-case letter, a digit, a blank
\* and a tab, and values that are not strings
MaxSymbolLen == 3

SymbolInputs ==
    {PyStr(s) : s \in UNION {[1..n -> {"a", "B", "1", " ", "\t"}] : n \in 0..MaxSymbolLen}}
    \cup {PyNone, PyInt(0), PyInt(5), PyBool(TRUE)}

HelpersIdle ==
    /\ helperCall = NoCall
    /\ helperResult = [out |-> "idle"]

\* the call validate_symbol(symbol)
CallValidateSymbol ==
    /\ helperResult = NoOutcome
    /\ helperCall.fn = "validate_symbol"
    /\ helperResult' = ValidateSymbol(helperCall.symbol)
    /\ UNCHANGED <<helperCall, notHelpers>>

-----------------------------------------------------------------------------
(* mcp_tools.validate_limit *)

LIMIT_MAX == 10000

LIMIT_MUST_BE_INTEGER == <<"L","i","m","i","t"," ","m","u","s",
      "t"," ","b","e"," ","a","n"," ","i","n","t","e","g","e","r">>
LIMIT_MUST_BE_POSITIVE == <<"L","i","m","i","t"," ","m","u","s",
      "t"," ","b","e"," ","p","o","s","i","t","i","v","e">>
LIMIT_TOO_LARGE == <<"L","i","m","i","t"," ","c","a","n","n","o",
      "t"," ","e","x","c","e","e","d"," ","1","0","0","0","0">>

\* isinstance(x, int): bool is a subclass of int
IsInstanceInt(x) == x.t \in {"int", "bool"}

\* the integer an int or a bool compares as
IntOf(x) == IF x.t = "bool" THEN (IF x.v THEN 1 ELSE 0) ELSE x.v

ValidateLimitOffByOne(limit) ==
    IF limit = PyNone THEN Returned(PyNone)
    ELSE IF ~IsInstanceInt(limit) THEN Raised(ValueError(LIMIT_MUST_BE_INTEGER))
    ELSE IF IntOf(limit) <= 0 THEN Raised(ValueError(LIMIT_MUST_BE_POSITIVE))
    ELSE IF IntOf(limit) >= LIMIT_MAX THEN Raised(ValueError(LIMIT_TOO_LARGE))
    ELSE Returned(limit)

\* validate_limit (lines 126-151)
ValidateLimit(limit) ==
    IF limit = PyNone THEN Returned(PyNone)
    ELSE IF ~IsInstanceInt(limit) THEN Raised(ValueError(LIMIT_MUST_BE_INTEGER))
    ELSE IF IntOf(limit) <= 0 THEN Raised(ValueError(LIMIT_MUST_BE_POSITIVE))
    ELSE IF IntOf(limit) > LIMIT_MAX THEN Raised(ValueError(LIMIT_TOO_LARGE))
    ELSE Returned(limit)

\* the limits the model validates: the integers within LimitSlack of the two
\* ends of the accepted range, -5, and values that are not of type int
LimitSlack == 2

LimitInputs ==
    {PyInt(i) : i \in (0 - LimitSlack)..(1 + LimitSlack)}
    \cup {PyInt(i) : i \in (LIMIT_MAX - LimitSlack)..(LIMIT_MAX + LimitSlack)}
    \cup {PyInt(-5), PyNone, PyBool(TRUE), PyBool(FALSE), PyFloat(10),
          PyStr(<<"1","0">>), PyStr(<<>>)}

\* the call validate_limit(limit)
CallValidateLimit ==
    /\ helperResult = NoOutcome
    /\ helperCall.fn = "validate_limit"
    /\ helperResult' = ValidateLimit(helperCall.limit)
    /\ UNCHANGED <<helperCall, notHelpers>>

-----------------------------------------------------------------------------
(* mcp_server.setup_error_handling.handle_error *)

\* the classes of aiofmp.base that mcp_server imports (line 17), each with its
\* base class: FMPError is the superclass of the three others
FMPBases ==
    [k \in FMPErrorKinds |-> IF k = "FMPError" THEN "Exception" ELSE "FMPError"]

\* the base class of a class: Exception for Python's own ValueError and
\* RuntimeError, BaseException for Exception and asyncio.CancelledError
BaseOf(k) ==
    IF k \in DOMAIN FMPBases THEN FMPBases[k]
    ELSE IF k \in {"Exception", "CancelledError"} THEN "BaseException"
    ELSE "Exception"

\* issubclass(k, cls)
RECURSIVE IsSubclass(_, _)
IsSubclass(k, cls) ==
    IF k = cls THEN TRUE
    ELSE IF k = "BaseException" THEN FALSE
    ELSE IsSubclass(BaseOf(k), cls)

\* isinstance(e, cls)
IsInstance(e, cls) == IsSubclass(e.kind, cls)

AUTHENTICATION_FAILED == <<"A","u","t","h","e","n","t","i","c",
      "a","t","i","o","n"," ","f","a","i","l","e","d">>
INVALID_OR_MISSING_KEY == <<"I","n","v","a","l","i","d"," ","o",
      "r"," ","m","i","s","s","i","n","g"," ","F","M","P"," ",
      "A","P","I"," ","k","e","y">>
AUTHENTICATION_ERROR == <<"a","u","t","h","e","n","t","i","c",
      "a","t","i","o","n","_","e","r","r","o","r">>
RATE_LIMIT_EXCEEDED == <<"R","a","t","e"," ","l","i","m","i","t",
      " ","e","x","c","e","e","d","e","d">>
TRY_AGAIN_LATER == <<"T","o","o"," ","m","a","n","y"," ","r","e",
      "q","u","e","s","t","s",","," ","p","l","e","a","s","e",
      " ","t","r","y"," ","a","g","a","i","n"," ","l","a","t","e","r">>
RATE_LIMIT_ERROR == <<"r","a","t","e","_","l","i","m","i","t","_","e","r","r","o","r">>
API_RESPONSE_ERROR == <<"A","P","I"," ","r","e","s","p","o","n",
      "s","e"," ","e","r","r","o","r">>
API_ERROR == <<"a","p","i","_","e","r","r","o","r">>
FMP_API_ERROR == <<"F","M","P"," ","A","P","I"," ","e","r","r","o","r">>
FMP_ERROR == <<"f","m","p","_","e","r","r","o","r">>
INTERNAL_SERVER_ERROR == <<"I","n","t","e","r","n","a","l"," ",
      "s","e","r","v","e","r"," ","e","r","r","o","r">>
INTERNAL_ERROR == <<"i","n","t","e","r","n","a","l","_","e","r","r","o","r">>

\* the dict handle_error returns
ErrorDict(error, message, type) ==
    [k \in {"error", "message", "type"} |->
        CASE k = "error" -> PyStr(error)
          [] k = "message" -> PyStr(message)
          [] k = "type" -> PyStr(type)]

HandleErrorGenericFirst(error) ==
    IF IsInstance(error, "FMPError")
    THEN ErrorDict(FMP_API_ERROR, StrOfError(error), FMP_ERROR)
    ELSE IF IsInstance(error, "FMPAuthenticationError")
    THEN ErrorDict(AUTHENTICATION_FAILED, INVALID_OR_MISSING_KEY, AUTHENTICATION_ERROR)
    ELSE IF IsInstance(error, "FMPRateLimitError")
    THEN ErrorDict(RATE_LIMIT_EXCEEDED, TRY_AGAIN_LATER, RATE_LIMIT_ERROR)
    ELSE IF IsInstance(error, "FMPResponseError")
    THEN ErrorDict(API_RESPONSE_ERROR, StrOfError(error), API_ERROR)
    ELSE ErrorDict(INTERNAL_SERVER_ERROR, StrOfError(error), INTERNAL_ERROR)

\* handle_error (lines 80-112)
HandleError(error) ==
    IF IsInstance(error, "FMPAuthenticationError")
    THEN ErrorDict(AUTHENTICATION_FAILED, INVALID_OR_MISSING_KEY, AUTHENTICATION_ERROR)
    ELSE IF IsInstance(error, "FMPRateLimitError")
    THEN ErrorDict(RATE_LIMIT_EXCEEDED, TRY_AGAIN_LATER, RATE_LIMIT_ERROR)
    ELSE IF IsInstance(error, "FMPResponseError")
    THEN ErrorDict(API_RESPONSE_ERROR, StrOfError(error), API_ERROR)
    ELSE IF IsInstance(error, "FMPError")
    THEN ErrorDict(FMP_API_ERROR, StrOfError(error), FMP_ERROR)
    ELSE ErrorDict(INTERNAL_SERVER_ERROR, StrOfError(error), INTERNAL_ERROR)

\* the errors the model hands to the handler: one of each class, with each of
\* the messages, among them those of the tests (test_mcp_server.py 104-178)
HandlerErrors ==
    {Error(k, m) : k \in ExceptionKinds,
                   m \in Messages \cup {RATE_LIMIT_EXCEEDED, API_RESPONSE_ERROR,
                                        <<"I","n","v","a","l","i","d"," ","A","P","I"," ","k","e","y">>,
                                        <<"G","e","n","e","r","a","l"," ","e","r","r","o","r">>}}

\* the call handle_error(error)
CallHandleError ==
    /\ helperResult = NoOutcome
    /\ helperCall.fn = "handle_error"
    /\ helperResult' = Returned(HandleError(helperCall.error))
    /\ UNCHANGED <<helperCall, notHelpers>>

-----------------------------------------------------------------------------
(* Python int and float arithmetic, for create_summary_stats *)

\* A Python int is a sign and a magnitude of any size; the magnitude is kept
\* as CPython keeps it, as digits of PyLong_SHIFT bits, the least significant
\* first and the most significant not zero. A Python float has DBL_MANT_DIG
\* bits of precision.
PyLong_SHIFT == 15
PyLong_BASE == 2^PyLong_SHIFT
DBL_MANT_DIG == 53

RECURSIVE MagOfNat(_)
MagOfNat(n) ==
    IF n = 0 THEN <<>> ELSE <<n % PyLong_BASE>> \o MagOfNat(n \div PyLong_BASE)

PyLong(neg, mag) == [t |-> "int", v |-> [neg |-> neg /\ mag # <<>>, mag |-> mag]]

\* the Python int i, for an i of at most 31 bits
Long(i) == PyLong(i < 0, MagOfNat(IF i < 0 THEN 0 - i ELSE i))

RECURSIVE MagNormalize(_)
MagNormalize(a) ==
    IF a # <<>> /\ a[Len(a)] = 0 THEN MagNormalize(SubSeq(a, 1, Len(a) - 1)) ELSE a

MagDigit(a, i) == IF i <= Len(a) THEN a[i] ELSE 0

RECURSIVE AddFrom(_, _, _, _)
AddFrom(a, b, i, carry) ==
    IF i > Len(a) /\ i > Len(b)
    THEN (IF carry = 0 THEN <<>> ELSE <<carry>>)
    ELSE LET t == MagDigit(a, i) + MagDigit(b, i) + carry
         IN <<t % PyLong_BASE>> \o AddFrom(a, b, i + 1, t \div PyLong_BASE)

\* a + b
MagAdd(a, b) == AddFrom(a, b, 1, 0)

RECURSIVE SubFrom(_, _, _, _)
SubFrom(a, b, i, borrow) ==
    IF i > Len(a) THEN <<>>
    ELSE LET t == MagDigit(a, i) - MagDigit(b, i) - borrow
         IN <<IF t < 0 THEN t + PyLong_BASE ELSE t>>
            \o SubFrom(a, b, i + 1, IF t < 0 THEN 1 ELSE 0)

\* a - b, for a >= b
MagSub(a, b) == MagNormalize(SubFrom(a, b, 1, 0))

RECURSIVE CmpFrom(_, _, _)
CmpFrom(a, b, i) ==
    IF i = 0 THEN 0
    ELSE IF a[i] < b[i] THEN -1
    ELSE IF a[i] > b[i] THEN 1
    ELSE CmpFrom(a, b, i - 1)

\* -1, 0 or 1 as a < b, a = b or a > b
MagCmp(a, b) ==
    IF Len(a) < Len(b) THEN -1
    ELSE IF Len(a) > Len(b) THEN 1
    ELSE CmpFrom(a, b, Len(a))

\* -1, 0 or 1 for two signed magnitudes
SignedCmp(aneg, a, bneg, b) ==
    IF aneg /\ ~bneg THEN -1
    ELSE IF ~aneg /\ bneg THEN 1
    ELSE IF aneg THEN MagCmp(b, a)
    ELSE MagCmp(a, b)

\* x + y for two ints
LongAdd(x, y) ==
    IF x.v.neg = y.v.neg THEN PyLong(x.v.neg, MagAdd(x.v.mag, y.v.mag))
    ELSE IF MagCmp(x.v.mag, y.v.mag) >= 0
         THEN PyLong(x.v.neg, MagSub(x.v.mag, y.v.mag))
         ELSE PyLong(y.v.neg, MagSub(y.v.mag, x.v.mag))

\* x < y for two ints
LongLess(x, y) == SignedCmp(x.v.neg, x.v.mag, y.v.neg, y.v.mag) < 0

RECURSIVE DivFrom(_, _, _, _)
DivFrom(a, n, i, rem) ==
    IF i = 0 THEN [q |-> <<>>, r |-> rem]
    ELSE LET t == rem * PyLong_BASE + a[i]
             rest == DivFrom(a, n, i - 1, t % n)
         IN [q |-> Append(rest.q, t \div n), r |-> rest.r]

\* the quotient and the remainder of a by a positive n below PyLong_BASE
MagDivMod(a, n) ==
    LET d == DivFrom(a, n, Len(a), 0) IN [q |-> MagNormalize(d.q), r |-> d.r]

RECURSIVE MulFrom(_, _, _, _)
MulFrom(a, f, i, carry) ==
    IF i > Len(a) THEN (IF carry = 0 THEN <<>> ELSE <<carry>>)
    ELSE LET t == a[i] * f + carry
         IN <<t % PyLong_BASE>> \o MulFrom(a, f, i + 1, t \div PyLong_BASE)

\* a * 2^s: whole digits are put below, the rest is a multiplication
MagShl(a, s) ==
    IF a = <<>> THEN <<>>
    ELSE [i \in 1..(s \div PyLong_SHIFT) |-> 0] \o MulFrom(a, 2^(s % PyLong_SHIFT), 1, 0)

\* a \div 2^k, and whether a bit that is 1 was dropped
ShrSticky(a, k) ==
    LET w == IF k \div PyLong_SHIFT < Len(a) THEN k \div PyLong_SHIFT ELSE Len(a)
        d == MagDivMod(SubSeq(a, w + 1, Len(a)), 2^(k % PyLong_SHIFT))
    IN [q |-> d.q, sticky |-> d.r # 0 \/ \E i \in 1..w : a[i] # 0]

RECURSIVE BitLenNat(_)
BitLenNat(n) == IF n = 0 THEN 0 ELSE 1 + BitLenNat(n \div 2)

\* int.bit_length() of a magnitude
BitLength(a) ==
    IF a = <<>> THEN 0 ELSE PyLong_SHIFT * (Len(a) - 1) + BitLenNat(a[Len(a)])

\* the float (-1)^neg * m * 2^e, with m of DBL_MANT_DIG bits, or 0.0
PyDouble(neg, m, e) == [t |-> "float", v |-> [neg |-> neg, m |-> m, e |-> e]]

\* x / n for an int x and a positive int n below PyLong_BASE: the float
\* nearest to the quotient, the one with the even mantissa of two equally near
TrueDivide(x, n) ==
    IF x.v.mag = <<>> THEN PyDouble(FALSE, <<>>, 0)
    ELSE LET need == DBL_MANT_DIG + 2 + BitLenNat(n) - BitLength(x.v.mag)
             s == IF need > 0 THEN need ELSE 0
             d == MagDivMod(MagShl(x.v.mag, s), n)
             k == BitLength(d.q) - DBL_MANT_DIG
             hi == ShrSticky(d.q, k - 1)
             last == MagDivMod(hi.q, 2)
             sticky == hi.sticky \/ d.r # 0
             odd == last.q[1] % 2 = 1
             up == last.r = 1 /\ (sticky \/ odd)
             m == IF up THEN MagAdd(last.q, <<1>>) ELSE last.q
         IN IF BitLength(m) > DBL_MANT_DIG
            THEN PyDouble(x.v.neg, MagDivMod(m, 2).q, k - s + 1)
            ELSE PyDouble(x.v.neg, m, k - s)

-----------------------------------------------------------------------------
(* mcp_tools.create_summary_stats *)

\* item.get(key)
DictGet(item, key) == IF key \in DOMAIN item THEN item[key] ELSE PyNone

\* [item.get(key) for item in data if item.get(key) is not None] (line 255)
ValuesAt(data, key) ==
    SelectSeq([i \in 1..Len(data) |-> DictGet(data[i], key)], LAMBDA v : v # PyNone)

\* min(values), for ints: the first of the least
RECURSIVE PyMin(_)
PyMin(values) ==
    IF Len(values) = 1 THEN values[1]
    ELSE LET m == PyMin(SubSeq(values, 1, Len(values) - 1))
             x == values[Len(values)]
         IN IF LongLess(x, m) THEN x ELSE m

\* max(values), for ints: the first of the greatest
RECURSIVE PyMax(_)
PyMax(values) ==
    IF Len(values) = 1 THEN values[1]
    ELSE LET m == PyMax(SubSeq(values, 1, Len(values) - 1))
             x == values[Len(values)]
         IN IF LongLess(m, x) THEN x ELSE m

\* sum(values), for ints: from 0, left to right
RECURSIVE PySum(_)
PySum(values) ==
    IF values = <<>> THEN Long(0)
    ELSE LongAdd(PySum(SubSeq(values, 1, Len(values) - 1)), values[Len(values)])

\* the dict create_summary_stats returns
SummaryStats(count, min, max, avg) ==
    [k \in {"count", "min", "max", "avg"} |->
        CASE k = "count" -> count
          [] k = "min" -> min
          [] k = "max" -> max
          [] k = "avg" -> avg]

\* create_summary_stats (lines 241-265)
CreateSummaryStats(data, key) ==
    IF data = <<>> THEN SummaryStats(Long(0), PyNone, PyNone, PyNone)
    ELSE LET values == ValuesAt(data, key)
         IN IF values = <<>>
            THEN SummaryStats(Long(Len(data)), PyNone, PyNone, PyNone)
            ELSE SummaryStats(Long(Len(values)), PyMin(values), PyMax(values),
                              TrueDivide(PySum(values), Len(values)))

\* the least positive int that no float equals, 2^DBL_MANT_DIG + 1
FirstInexactInt == PyLong(FALSE, MagAdd(MagShl(<<1>>, DBL_MANT_DIG), <<1>>))

\* the data the model summarises: lists of at most MaxItems dicts, each with
\* an int or None at the key "x", or without that key
MaxItems == 3

StatsItems ==
    {[k \in {"x"} |-> v] :
        v \in {PyNone, Long(0), Long(1), Long(3), Long(-2), FirstInexactInt}}
    \cup {[k \in {"y"} |-> Long(1)]}

StatsData == UNION {[1..n -> StatsItems] : n \in 0..MaxItems}

\* the call create_summary_stats(data, key)
CallCreateSummaryStats ==
    /\ helperResult = NoOutcome
    /\ helperCall.fn = "create_summary_stats"
    /\ helperResult' = Returned(CreateSummaryStats(helperCall.data, helperCall.key))
    /\ UNCHANGED <<helperCall, notHelpers>>

\* the calls of the helpers the model makes, one per behaviour
HelperCalls ==
    {[fn |-> "validate_symbol", symbol |-> x] : x \in SymbolInputs}
    \cup {[fn |-> "validate_limit", limit |-> x] : x \in LimitInputs}
    \cup {[fn |-> "handle_error", error |-> x] : x \in HandlerErrors}
    \cup {[fn |-> "create_summary_stats", data |-> d, key |-> "x"] : d \in StatsData}

HelpersNext ==
    \/ CallValidateSymbol
    \/ CallValidateLimit
    \/ CallHandleError
    \/ CallCreateSummaryStats

-----------------------------------------------------------------------------
(* Specifications *)

\* an environment with no variable set
NoEnvironment == {e \in Environments : \A n \in EnvNames : e[n] = PyNone}

\* one run of run_server, from any environment
Init ==
    /\ ServerInit
    /\ ClientIdle
    /\ ToolsIdle
    /\ SearchIdle
    /\ DateIdle
    /\ HelpersIdle

Spec == Init /\ [][ServerNext]_vars

\* calls of get_fmp_client, with the API key changing in between
ClientInit ==
    /\ env \in {e \in Environments : \A n \in EnvNames \ {"FMP_API_KEY"} : e[n] = PyNone}
    /\ ServerIdle
    /\ ClientIdle
    /\ ToolsIdle
    /\ SearchIdle
    /\ DateIdle
    /\ HelpersIdle

SpecClient == ClientInit /\ [][ClientNext]_vars

\* invocations of wrapped tools and direct calls of create_tool_response
ToolsInit ==
    /\ env \in NoEnvironment
    /\ ServerIdle
    /\ ClientIdle
    /\ ToolsIdle
    /\ SearchIdle
    /\ DateIdle
    /\ HelpersIdle

SpecTools == ToolsInit /\ [][ToolsNext]_vars

\* calls of the search category's methods
SearchInit ==
    /\ env \in NoEnvironment
    /\ ServerIdle
    /\ ClientIdle
    /\ ToolsIdle
    /\ searchCall \in SearchCalls
    /\ searchPc = "called"
    /\ requestCount = 0
    /\ lastRequest = [endpoint |-> "none"]
    /\ searchResult = NoOutcome
    /\ DateIdle
    /\ HelpersIdle

SpecSearch == SearchInit /\ [][SearchNext]_vars

\* the calls of search methods with nothing but the required argument, a
\* query that is not empty
PlainSearchCalls ==
    {c \in SearchCalls : \A n \in DOMAIN c.args :
        IF n = "query" THEN Truthy(c.args[n]) ELSE c.args[n] = PyNone}

\* invocations of wrapped tools, and a call of a search method next to them
RequestsInit ==
    /\ env \in NoEnvironment
    /\ ServerIdle
    /\ ClientIdle
    /\ ToolsIdle
    /\ searchCall \in PlainSearchCalls
    /\ searchPc = "called"
    /\ requestCount = 0
    /\ lastRequest = [endpoint |-> "none"]
    /\ searchResult = NoOutcome
    /\ DateIdle
    /\ HelpersIdle

RequestsNext ==
    \/ \E i \in ToolIds : InvokeWrappedTool(i)
    \/ \E i \in ToolIds : OperationEnds(i)
    \/ Symbols
    \/ Companies
    \/ Screener
    \/ RequestEnds

SpecRequests == RequestsInit /\ [][RequestsNext]_vars

\* one call of validate_date, on any of the inputs
DateInit ==
    /\ env \in NoEnvironment
    /\ ServerIdle
    /\ ClientIdle
    /\ ToolsIdle
    /\ SearchIdle
    /\ date_str \in DateInputs
    /\ dateResult = NoOutcome
    /\ HelpersIdle

SpecDate == DateInit /\ [][DateNext]_vars

\* one call of a validation helper, of the error handler or of
\* create_summary_stats, on any of the inputs
HelpersInit ==
    /\ env \in NoEnvironment
    /\ ServerIdle
    /\ ClientIdle
    /\ ToolsIdle
    /\ SearchIdle
    /\ DateIdle
    /\ helperCall \in HelperCalls
    /\ helperResult = NoOutcome

SpecHelpers == HelpersInit /\ [][HelpersNext]_vars

-----------------------------------------------------------------------------
(* Properties of run_server, checked under Spec *)

KeyMissing == ~Truthy(env["FMP_API_KEY"])

\* the status the process ends with: the one given to sys.exit, or 0 once
\* run_server has returned to main (lines 151-153)
ExitStatus == IF exitCalls # <<>> THEN exitCalls[1] ELSE 0

\* C1: with FMP_API_KEY absent or empty, run_server never attempts
\* register_tools and never calls mcp.run, and it ends only by exiting with
\* status 1, whatever the transport, host and port variables hold.
C1_MissingKeyExitsBeforeRegistration ==
    KeyMissing =>
        /\ pc \in {"config", "validate", "exited"}
        /\ registered = "no"
        /\ ~handlerInstalled
        /\ runCalls = <<>>
        /\ pc = "exited" => exitCalls = <<1>>
        /\ pc # "exited" => exitCalls = <<>>

\* C1's case: the key is missing, the configuration was read without error
\* and the key check ended the process.
C1_Witness ==
    /\ KeyMissing
    /\ port # PyNone
    /\ pc = "exited"
    /\ exitCalls = <<1>>
    /\ env["MCP_TRANSPORT"] = PyStr(HTTP)

\* the spec's startup states, read off the position of run_server
Phase ==
    CASE pc \in {"config", "validate"} -> "UNCONFIGURED"
      [] pc \in {"register", "setup", "run"} -> "READY"
      [] pc = "serving" -> "SERVING"
      [] pc = "returned" -> "STOPPED"
      [] OTHER -> "FAILED"

PhaseOrder ==
    {<<"UNCONFIGURED", "READY">>, <<"READY", "SERVING">>,
     <<"SERVING", "STOPPED">>, <<"SERVING", "FAILED">>,
     <<"UNCONFIGURED", "FAILED">>, <<"READY", "FAILED">>}

C2_ServingNeedsKeyAndRegistration ==
    /\ (pc = "serving" \/ runCalls # <<>>) =>
          /\ ~KeyMissing
          /\ api_key = env["FMP_API_KEY"]
          /\ registered = "ok"
    /\ Phase = "READY" => ~KeyMissing
    /\ registered = "failed" =>
          /\ runCalls = <<>>
          /\ pc = "exited"
          /\ exitCalls = <<1>>
          /\ ExitStatus # 0

\* C2: the startup states are passed in the order UNCONFIGURED, READY,
\* SERVING; mcp.run is called only after the key was found and register_tools
\* returned; a register_tools that raises ends the run with a non-zero exit
\* and no call of mcp.run.
C2_StartupOrder ==
    /\ []C2_ServingNeedsKeyAndRegistration
    /\ [][Phase' # Phase => <<Phase, Phase'>> \in PhaseOrder]_vars

\* C2's case: a tool module could not be imported and startup was aborted.
C2_Witness ==
    /\ registered = "failed"
    /\ ~toolModulesImportable
    /\ pc = "exited"
    /\ runCalls = <<>>

\* C3: once mcp.run was awaited, a KeyboardInterrupt makes run_server return
\* with no exit call (status 0), any other Exception makes it exit with
\* status 1 exactly once, and a normal return never exits with status 1.
C3_ServingOutcomeDecidesExit ==
    /\ runOutcome = "KeyboardInterrupt" =>
          /\ pc = "returned"
          /\ exitCalls = <<>>
          /\ ExitStatus = 0
    /\ runOutcome = "Exception" =>
          /\ pc = "exited"
          /\ exitCalls = <<1>>
    /\ runOutcome = "return" =>
          /\ pc = "returned"
          /\ exitCalls = <<>>
          /\ ExitStatus = 0
    /\ runOutcome # "none" => Len(runCalls) = 1

\* C3's case: the serving loop was interrupted.
C3_Witness ==
    /\ runOutcome = "KeyboardInterrupt"
    /\ pc = "returned"
    /\ Len(runCalls) = 1

\* the call of mcp.run that C4 states for an environment
ExpectedRunCall ==
    IF env["MCP_TRANSPORT"] = PyStr(HTTP)
    THEN [transport |-> PyStr(HTTP),
          host |-> IF env["MCP_HOST"] = PyNone THEN PyStr(LOCALHOST) ELSE env["MCP_HOST"],
          port |-> IF env["MCP_PORT"] = PyNone THEN PyInt(3000)
                   ELSE PyInt(IntValue(env["MCP_PORT"].v))]
    ELSE [transport |-> PyStr(STDIO), host |-> PyNone, port |-> PyNone]

PortIsInteger == env["MCP_PORT"] = PyNone \/ IntParses(env["MCP_PORT"].v)

\* C4: with the key present and the tool modules registering, run_server
\* calls mcp.run exactly once: in HTTP mode with MCP_HOST (default localhost)
\* and the integer MCP_PORT (default 3000) when MCP_TRANSPORT is "http", in
\* stdio mode with no host or port when it is "stdio" or unset, whatever
\* MCP_HOST and MCP_PORT hold in that case.
C4_OneRunCallInTheSelectedMode ==
    (/\ ~KeyMissing
     /\ toolModulesImportable
     /\ pc \in {"serving", "returned", "exited", "propagated"}
     /\ \/ env["MCP_TRANSPORT"] \in {PyNone, PyStr(STDIO)}
        \/ env["MCP_TRANSPORT"] = PyStr(HTTP) /\ PortIsInteger)
    => runCalls = <<ExpectedRunCall>>

-----------------------------------------------------------------------------
(* Properties of get_fmp_client, checked under SpecClient *)

C5_OneInstance ==
    /\ clientCalls = 0 => fmp_client = PyNone /\ clientsCreated = 0
    /\ Cardinality(returnedClients) <= 1
    /\ clientsCreated <= 1
    /\ lastGet.out = "returned" => lastGet.val = fmp_client /\ fmp_client # PyNone
    /\ returnedClients \subseteq {fmp_client}

\* C5: no client exists before the first call of get_fmp_client; every call
\* that returns yields the same instance, whatever FMP_API_KEY was changed to
\* in between; once set, the global is never replaced, cleared or changed.
C5_LazySingleton ==
    /\ []C5_OneInstance
    /\ [][fmp_client # PyNone => fmp_client' = fmp_client]_vars

\* C5's case: a second call returned after the key had been changed to
\* another value than the one the client was built with.
C5_Witness ==
    /\ clientCalls >= 2
    /\ lastGet.out = "returned"
    /\ ~lastGet.keyMissing
    /\ env["FMP_API_KEY"] # PyStr(fmp_client.v.api_key)

\* C6: a call of get_fmp_client made while FMP_API_KEY is absent or empty
\* raises FMPAuthenticationError("FMP_API_KEY environment variable is
\* required"), whatever calls preceded it.
C6_MissingKeyAlwaysRaises ==
    (lastGet.out # "none" /\ lastGet.keyMissing) =>
        /\ lastGet.out = "raised"
        /\ lastGet.val = FMPAuthenticationError(KEY_REQUIRED)

-----------------------------------------------------------------------------
(* Properties of the tool response envelope, checked under SpecTools *)

\* the spec's envelope invariant: success = false implies null data and a
\* non-empty message
EnvelopeInvariant(r) ==
    r["success"] = PyBool(FALSE) =>
        /\ "data" \in DOMAIN r => r["data"] = PyNone
        /\ "message" \in DOMAIN r
        /\ r["message"].t = "str"
        /\ r["message"].v # <<>>

Wrapped(i) == tool[i].call.fn = "wrapper"
Direct(i) == tool[i].call.fn = "create_tool_response"
Done(i) == tool[i].pc = "done"

\* C7: every envelope with success = false has null data and a non-empty
\* message, whether built by create_tool_response from any arguments or
\* returned by a handle_async_operation-wrapped tool.
C7_EveryEnvelopeKeepsTheInvariant ==
    \A i \in ToolIds :
        (Done(i) /\ tool[i].result.out = "returned") =>
            EnvelopeInvariant(tool[i].result.val)

\* C7 as amended: the envelopes of wrapped tools keep the invariant;
\* create_tool_response copies success and data and attaches the message
\* only when it is non-empty, so its envelope keeps the invariant exactly
\* when a call with success = false gives data None and a non-empty message.
C7_WrappedEnvelopesKeepTheInvariant ==
    \A i \in ToolIds :
        /\ (Done(i) /\ Wrapped(i) /\ tool[i].result.out = "returned") =>
              EnvelopeInvariant(tool[i].result.val)
        /\ (Done(i) /\ Direct(i)) =>
              LET r == tool[i].result.val
                  a == tool[i].call
              IN /\ tool[i].result.out = "returned"
                 /\ r["success"] = a.success
                 /\ r["data"] = a.data
                 /\ "message" \in DOMAIN r <=> a.message.v # <<>>
                 /\ "message" \in DOMAIN r => r["message"] = a.message
                 /\ EnvelopeInvariant(r) <=>
                       (a.success = PyBool(FALSE) =>
                           a.data = PyNone /\ a.message.v # <<>>)

\* C7's case: a wrapped tool whose operation raised returned a failure
\* envelope, and a direct call built one too.
C7_Witness ==
    \E i, j \in ToolIds :
        /\ Done(i) /\ Wrapped(i)
        /\ tool[i].result.out = "returned"
        /\ tool[i].result.val["success"] = PyBool(FALSE)
        /\ Done(j) /\ Direct(j)
        /\ tool[j].call.success = PyBool(FALSE)
        /\ tool[j].call.data = PyNone
        /\ tool[j].call.message.v # <<>>

\* C8: a wrapped tool returns a failure envelope with a message for every
\* Exception its operation raises (validation, authentication, rate-limit,
\* response, internal), and a success envelope carrying the operation's
\* result exactly when the operation returned.
C8_WrapperNeverPropagatesErrors ==
    \A i \in ToolIds :
        (Done(i) /\ Wrapped(i)) =>
            LET op == tool[i].op
                res == tool[i].result
            IN /\ (op.out = "raised" /\ op.val.kind \in ExceptionKinds) =>
                      /\ res.out = "returned"
                      /\ res.val["success"] = PyBool(FALSE)
                      /\ "message" \in DOMAIN res.val
                      /\ res.val["message"].v # <<>>
               /\ op.out = "returned" =>
                      /\ res.out = "returned"
                      /\ res.val["success"] = PyBool(TRUE)
                      /\ res.val["data"] = op.val
               /\ (res.out = "returned" /\ res.val["success"] = PyBool(TRUE))
                      <=> op.out = "returned"

\* C8's case: the operation raised a validation error and the wrapper
\* returned a failure envelope.
C8_Witness ==
    \E i \in ToolIds :
        /\ Done(i) /\ Wrapped(i)
        /\ tool[i].op = Raised(Error("ValueError", <<"b","o","o","m">>))
        /\ tool[i].result.out = "returned"
        /\ tool[i].result.val["success"] = PyBool(FALSE)

-----------------------------------------------------------------------------
(* Properties of the search category's requests, checked under SpecSearch *)

\* the parameters of a search method with their external names
FieldsOf(method) ==
    IF method = "screener" THEN ScreenerFields
    ELSE <<<<"query", "query">>>> \o QueryFields

ExternalName(method, arg) ==
    LET f == FieldsOf(method)
    IN f[CHOOSE i \in 1..Len(f) : f[i][1] = arg][2]

\* C9: the params of every request a search method builds hold a key exactly
\* for each argument supplied with a non-None value, under that argument's
\* external name and with the value unchanged (False, 0 and "" included); no
\* argument that is None is a key.
C9_ParamsHoldExactlyTheSuppliedArguments ==
    searchPc \in {"awaiting", "done"} =>
        LET m == searchCall.method
            a == searchCall.args
            p == lastRequest.params
            given == {n \in DOMAIN a : a[n] # PyNone}
        IN /\ DOMAIN a = FieldNames(FieldsOf(m))
           /\ DOMAIN p = {ExternalName(m, n) : n \in given}
           /\ \A n \in given : p[ExternalName(m, n)] = a[n]
           /\ \A n, n2 \in given : ExternalName(m, n) = ExternalName(m, n2) => n = n2
           /\ \A k \in DOMAIN p : p[k] # PyNone
           /\ (m = "screener" /\ "market_cap_more_than" \in given) =>
                  p["marketCapMoreThan"] = a["market_cap_more_than"]

\* C9's case: screener was called with is_etf = False and limit = 0 and
\* nothing else, and sent exactly those two.
C9_Witness ==
    /\ searchPc = "awaiting"
    /\ searchCall.method = "screener"
    /\ searchCall.args["is_etf"] = PyBool(FALSE)
    /\ searchCall.args["limit"] = PyInt(0)
    /\ lastRequest.endpoint = "company-screener"
    /\ DOMAIN lastRequest.params = {"isEtf", "limit"}
    /\ lastRequest.params["isEtf"] = PyBool(FALSE)
    /\ lastRequest.params["limit"] = PyInt(0)

-----------------------------------------------------------------------------
(* Properties of validate_date, checked under SpecDate *)

\* the shape DDDD-DD-DD as the claim spells it out: 10 characters, hyphens
\* at positions 5 and 8 and nowhere else, and the three components between
\* them parseable as integers
DateShaped(s) ==
    /\ Len(s) = 10
    /\ s[5] = "-"
    /\ s[8] = "-"
    /\ \A i \in (1..10) \ {5, 8} : s[i] # "-"
    /\ IntParses(SubSeq(s, 1, 4))
    /\ IntParses(SubSeq(s, 6, 7))
    /\ IntParses(SubSeq(s, 9, 10))

\* C10: validate_date fails for every string that is not of the shape
\* DDDD-DD-DD and returns every string of that shape unchanged. Stated for
\* the non-empty strings: the empty one is taken as no date at lines 105-106
\* and None is returned for it.
C10_OnlyDateShapedStringsPass ==
    (dateResult # NoOutcome /\ date_str.t = "str" /\ date_str.v # <<>>) =>
        IF DateShaped(date_str.v)
        THEN dateResult = Returned(date_str)
        ELSE dateResult.out = "raised"

\* a call of the helper fn was made and has ended
HelperCalled(fn) == helperCall.fn = fn /\ helperResult.out \in {"returned", "raised"}

HasVisibleChar(s) == \E i \in 1..Len(s) : s[i] \notin Whitespace

\* s without the whitespace before its first and after its last visible character
Trimmed(s) ==
    LET first == CHOOSE i \in 1..Len(s) :
                    s[i] \notin Whitespace /\ \A j \in 1..(i - 1) : s[j] \in Whitespace
        last == CHOOSE i \in 1..Len(s) :
                    s[i] \notin Whitespace /\ \A j \in (i + 1)..Len(s) : s[j] \in Whitespace
    IN SubSeq(s, first, last)

\* r is s with every lower-case letter replaced by its upper-case letter
UpperCased(r, s) ==
    /\ Len(r) = Len(s)
    /\ \A i \in 1..Len(r) :
        /\ \A j \in 1..Len(LowerChars) : r[i] # LowerChars[j]
        /\ LowerChar(r[i]) = LowerChar(s[i])

\* C11: validate_symbol returns the trimmed, upper-cased input for every string
\* with a character that is not whitespace, and raises ValueError for every
\* other input; what it returns is never empty, and validating it again
\* returns it unchanged.
C11_SymbolIsTrimmedAndUpperCased ==
    HelperCalled("validate_symbol") =>
        LET x == helperCall.symbol
        IN IF x.t = "str" /\ HasVisibleChar(x.v)
           THEN /\ helperResult.out = "returned"
                /\ helperResult.val.t = "str"
                /\ UpperCased(helperResult.val.v, Trimmed(x.v))
                /\ helperResult.val.v # <<>>
                /\ ValidateSymbol(helperResult.val) = helperResult
           ELSE /\ helperResult.out = "raised"
                /\ helperResult.val.kind = "ValueError"

C11_Witness ==
    /\ HelperCalled("validate_symbol")
    /\ helperCall.symbol = PyStr(<<" ", "a", "B">>)
    /\ helperResult = Returned(PyStr(<<"A", "B">>))

\* the int or bool x is an integer from 1 to LIMIT_MAX
InLimitRange(x) ==
    /\ x.t \in {"int", "bool"}
    /\ (IF x.t = "bool" THEN x.v ELSE x.v >= 1 /\ x.v <= LIMIT_MAX)

\* C12: validate_limit raises ValueError for every value that is not an integer
\* from 1 to 10000, returns every integer from 1 to 10000 itself, and never
\* returns a value outside 1..10000.
C12_LimitRejectsAllButTheRange ==
    HelperCalled("validate_limit") =>
        /\ IF InLimitRange(helperCall.limit)
           THEN helperResult = Returned(helperCall.limit)
           ELSE helperResult.out = "raised" /\ helperResult.val.kind = "ValueError"
        /\ helperResult.out = "returned" => InLimitRange(helperResult.val)

\* C12, amended: validate_limit returns None for None; it raises ValueError for
\* every other value that is not an integer from 1 to 10000, returns every
\* integer from 1 to 10000 itself (True is the integer 1), and never returns
\* anything but None or an integer of 1..10000.
C12_LimitRejectsAllButNoneAndTheRange ==
    HelperCalled("validate_limit") =>
        /\ IF helperCall.limit = PyNone
           THEN helperResult = Returned(PyNone)
           ELSE IF InLimitRange(helperCall.limit)
           THEN helperResult = Returned(helperCall.limit)
           ELSE helperResult.out = "raised" /\ helperResult.val.kind = "ValueError"
        /\ helperResult.out = "returned" =>
            helperResult.val = PyNone \/ InLimitRange(helperResult.val)

C12_Witness ==
    /\ HelperCalled("validate_limit")
    /\ helperCall.limit = PyInt(LIMIT_MAX)
    /\ helperResult = Returned(PyInt(LIMIT_MAX))

\* the category of the taxonomy an error of class kind belongs to
TaxonomyType(kind) ==
    CASE kind = "FMPAuthenticationError" -> AUTHENTICATION_ERROR
      [] kind = "FMPRateLimitError" -> RATE_LIMIT_ERROR
      [] kind = "FMPResponseError" -> API_ERROR
      [] kind = "FMPError" -> FMP_ERROR
      [] OTHER -> INTERNAL_ERROR

\* C13: the error handler reports every error under the one category of the
\* taxonomy its class belongs to: authentication_error, rate_limit_error,
\* api_error, fmp_error for any other FMP error, internal_error for the rest.
C13_HandlerReportsTheMostSpecificCategory ==
    HelperCalled("handle_error") =>
        /\ helperResult.out = "returned"
        /\ helperResult.val["type"] = PyStr(TaxonomyType(helperCall.error.kind))

C13_Witness ==
    /\ HelperCalled("handle_error")
    /\ helperCall.error.kind = "FMPRateLimitError"
    /\ helperResult.val["type"] = PyStr(RATE_LIMIT_ERROR)

\* C14: for an authentication error the handler's result has the error
\* "Authentication failed", the type "authentication_error" and, as its
\* message, the text of the error that was raised.
C14_AuthenticationMessageIsTheErrorText ==
    (HelperCalled("handle_error") /\ helperCall.error.kind = "FMPAuthenticationError") =>
        /\ helperResult.out = "returned"
        /\ helperResult.val["error"] = PyStr(AUTHENTICATION_FAILED)
        /\ helperResult.val["type"] = PyStr(AUTHENTICATION_ERROR)
        /\ helperResult.val["message"] = PyStr(StrOfError(helperCall.error))

\* -1, 0 or 1 as the int x is below, equal to or above the float f, compared
\* exactly
CmpLongFloat(x, f) ==
    IF f.v.e >= 0
    THEN SignedCmp(x.v.neg, x.v.mag, f.v.neg, MagShl(f.v.m, f.v.e))
    ELSE SignedCmp(x.v.neg, MagShl(x.v.mag, 0 - f.v.e), f.v.neg, f.v.m)

\* C15: create_summary_stats returns count 0 and null min, max and avg for an
\* empty list; the length of the list and null min, max and avg when no item
\* has a non-null value at the key; and otherwise the number of the non-null
\* values at the key, the least and the greatest of them, and a mean that
\* lies between the two.
C15_SummaryOfTheNonNullValues ==
    HelperCalled("create_summary_stats") =>
        LET data == helperCall.data
            key == helperCall.key
            r == helperResult.val
            present == {i \in 1..Len(data) :
                            key \in DOMAIN data[i] /\ data[i][key] # PyNone}
        IN /\ helperResult.out = "returned"
           /\ IF data = <<>>
              THEN r = SummaryStats(Long(0), PyNone, PyNone, PyNone)
              ELSE IF present = {}
              THEN r = SummaryStats(Long(Len(data)), PyNone, PyNone, PyNone)
              ELSE /\ r["count"] = Long(Cardinality(present))
                   /\ \E i \in present : r["min"] = data[i][key]
                   /\ \A i \in present : ~LongLess(data[i][key], r["min"])
                   /\ \E i \in present : r["max"] = data[i][key]
                   /\ \A i \in present : ~LongLess(r["max"], data[i][key])
                   /\ CmpLongFloat(r["min"], r["avg"]) <= 0
                   /\ CmpLongFloat(r["max"], r["avg"]) >= 0

\* every invocation of a wrapped tool has run its operation once, and its
\* result is what the wrapper makes of that operation's own outcome; a call
\* of a search method has made one request, whatever the request's outcome
C16_OneRunOneRequest ==
    /\ \A i \in ToolIds :
        /\ Wrapped(i) => tool[i].opRuns = 1
        /\ (Wrapped(i) /\ Done(i)) =>
              tool[i].result = WrapperResult(tool[i].call.operation_name, tool[i].op)
    /\ searchPc \in {"awaiting", "done"} => requestCount = 1
    /\ searchPc = "done" => searchResult \in RequestOutcomes

\* an invocation that has ended stays as it ended, and a step of one
\* invocation changes no other invocation
C16_TerminalAndIndependent ==
    /\ \A i \in ToolIds : Done(i) => tool'[i] = tool[i]
    /\ searchPc = "done" => UNCHANGED searchVars
    /\ \A i, j \in ToolIds : (i # j /\ tool'[i] # tool[i]) => tool'[j] = tool[j]
    /\ tool' # tool => UNCHANGED searchVars

\* C16: one invocation of a wrapped tool runs the wrapped operation exactly
\* once and one call of a search method makes exactly one request, whether
\* that succeeds or fails; nothing is run again after it ended, and no
\* invocation changes another's result.
C16_NoRetryNoInterference ==
    /\ []C16_OneRunOneRequest
    /\ [][C16_TerminalAndIndependent]_vars

\* C16's case: one wrapped tool ended with a failure envelope for a rate-limit
\* error, another with a success envelope, and the search method's one request
\* failed.
C16_Witness ==
    /\ searchPc = "done"
    /\ searchResult.out = "raised"
    /\ requestCount = 1
    /\ \E i, j \in ToolIds :
        /\ Wrapped(i) /\ Done(i)
        /\ tool[i].op.out = "raised"
        /\ tool[i].op.val.kind = "FMPRateLimitError"
        /\ tool[i].opRuns = 1
        /\ Wrapped(j) /\ Done(j)
        /\ tool[j].op.out = "returned"
        /\ tool[j].result.val["success"] = PyBool(TRUE)

=============================================================================
